---- MODULE Spec2Model ----
(***************************************************************************)
(* LedWorm: a rainbow "worm" on a 144-LED APA102 strip, steered by two     *)
(* auto-calibrating potentiometers.  The model follows src/src/LedWorm.ino *)
(* for the Arduino Micro (AVR: int is 16 bits, uint32_t is 32 bits).       *)
(***************************************************************************)
EXTENDS Integers, Sequences, FiniteSets, TLC

\* ------------------------------------------------------------------------
\* Bounds of the model
\* ------------------------------------------------------------------------
\* Steps of the whole-program specification: each is one run of loop() or
\* HoldLen consecutive runs with both pots held still.
MaxIter == 5
HoldLen == 256
\* The stand-alone reader is fed raw samples on a grid of
\* NumReaderSamples + 1 values of [0, 1023].
NumReaderSamples == 16
\* Reads of the stand-alone reader.
MaxReads == 3
\* Largest level and number of ticks of the stand-alone trigger.
MaxLevel == 8
MaxTicks == 24
\* Runs of loop() of the two clocks on their own: more than a lap of the strip.
MaxLapRuns == 150
\* Runs of loop() of two programs side by side.
MaxPairIter == 3

\* ------------------------------------------------------------------------
\* Program constants
\* ------------------------------------------------------------------------
NUM_LEDS == 144
NUM_RAINBOW_LEDS == 12
MAX_INTENSITY == 30
MEDIUM_INTENSITY == MAX_INTENSITY \div 4
\* analogRead() returns a 10-bit sample.
RAW_MAX == 1023
\* The top handed to both readers.
TOP == 1023
\* set_direction_and_speed: the constant subtracted and the deadband.
CENTER == 512
DEADBAND == 32
\* reverse_and_expo: the fold point and the divisor of the exponent.
HALF_RANGE == 512
EXPO_DIV == 64

VARIABLES
  pc,             \* "setup" before setup() has run, "loop" afterwards
  green, red, blue, \* LED intensity arrays
  leds,           \* the LED array handed to FastLED
  steps_reader,   \* AnalogReader of the speed pot
  color_reader,   \* AnalogReader of the color pot
  raw_steps,      \* last analogRead() of the speed pot
  raw_color,      \* last analogRead() of the color pot
  steps_seen,     \* raw values the speed pot has delivered so far
  color_seen,     \* raw values the color pot has delivered so far
  movement,       \* get_settings: value returned by steps_reader
  color,          \* get_settings: value returned by color_reader
  settings,       \* Settings of the current iteration
  state,          \* loop's static State
  steps_trigger,  \* loop's static CountTrigger of the worm
  color_trigger,  \* loop's static CountTrigger of the colors
  steps_fired,    \* what steps_trigger.tick() returned last
  color_fired,    \* what color_trigger.tick() returned last
  prev,           \* state and trigger counters when the last run of loop() began
  iter,           \* runs of loop() so far
  calls,          \* steps taken so far
  twin,           \* a second run of the program, fed other samples
  since           \* runs of loop() since each index last stepped

vars == <<pc, green, red, blue, leds, steps_reader, color_reader, raw_steps,
          raw_color, steps_seen, color_seen, movement, color, settings, state,
          steps_trigger, color_trigger, steps_fired, color_fired, prev, iter,
          calls, twin, since>>

\* ------------------------------------------------------------------------
\* Arithmetic helpers
\* ------------------------------------------------------------------------
\* The value a 16-bit int holds after an assignment of x.
Int16(x) == ((x + 32768) % 65536) - 32768

abs(x) == IF x < 0 THEN 0 - x ELSE x

\* The % of C on ints: the remainder has the sign of the dividend.
rem(a, b) == IF a >= 0 THEN a % b ELSE 0 - ((0 - a) % b)

\* ------------------------------------------------------------------------
\* Color table and LED array
\* ------------------------------------------------------------------------
CRGB(r, g, b) == [r |-> r, g |-> g, b |-> b]
Black == CRGB(0, 0, 0)

ZeroTable == [i \in 0..(NUM_RAINBOW_LEDS - 1) |-> 0]
ZeroLeds == [p \in 0..(NUM_LEDS - 1) |-> Black]

intensity_progression ==
  [i \in 0..(NUM_RAINBOW_LEDS - 1) |->
     IF i = 0 THEN MEDIUM_INTENSITY
     ELSE IF i <= 5 THEN MAX_INTENSITY
     ELSE IF i = 6 THEN MEDIUM_INTENSITY
     ELSE 0]

shift == 4

\* The fill loop writing every array at slot i, the shifts left out.
RECURSIVE FillTable_unshifted(_, _, _)
FillTable_unshifted(tab, k, i) ==
  IF i >= NUM_RAINBOW_LEDS THEN tab
  ELSE FillTable_unshifted([tab EXCEPT ![i % NUM_RAINBOW_LEDS] =
                                           intensity_progression[i]], k, i + 1)

\* The for loop of setup() writing one intensity array, k shifts along.
RECURSIVE FillTable(_, _, _)
FillTable(tab, k, i) ==
  IF i >= NUM_RAINBOW_LEDS THEN tab
  ELSE FillTable([tab EXCEPT ![(i + k * shift) % NUM_RAINBOW_LEDS] =
                                 intensity_progression[i]], k, i + 1)

\* The for loop of setup() turning off all LEDs: every whiteLed of
\* 0..NUM_LEDS-1 is written once.
AllOff(l) ==
  [p \in DOMAIN l |-> IF p \in 0..(NUM_LEDS - 1) THEN Black ELSE l[p]]

\* The turn-off loop stopping one LED short of the window.
RECURSIVE TurnOff_short(_, _, _)
TurnOff_short(l, start_led, i) ==
  IF i >= NUM_RAINBOW_LEDS - 1 THEN l
  ELSE TurnOff_short([l EXCEPT ![(start_led + i) % NUM_LEDS] = Black],
                     start_led, i + 1)

\* The first for loop of loop(): turn off the window at start_led.
RECURSIVE TurnOff(_, _, _)
TurnOff(l, start_led, i) ==
  IF i >= NUM_RAINBOW_LEDS THEN l
  ELSE TurnOff([l EXCEPT ![(start_led + i) % NUM_LEDS] = Black],
               start_led, i + 1)

\* The second for loop of loop(): set the LED colors (uint8_t positions).
RECURSIVE SetColors(_, _, _, _, _, _)
SetColors(l, st, r, g, b, i) ==
  IF i >= NUM_RAINBOW_LEDS THEN l
  ELSE LET led_pos   == ((st.start_led + i) % NUM_LEDS) % 256
           color_pos == ((st.color_index + i) % NUM_RAINBOW_LEDS) % 256
       IN SetColors([l EXCEPT ![led_pos] =
                          CRGB(r[color_pos], g[color_pos], b[color_pos])],
                    st, r, g, b, i + 1)

\* ------------------------------------------------------------------------
\* AnalogReader
\* ------------------------------------------------------------------------
\* The constructor starting from the full range, _min(0) and _max(1023).
AnalogReader_wide(pin, top) == [_pin |-> pin, _top |-> top, _min |-> 0, _max |-> 1023]

AnalogReader(pin, top) == [_pin |-> pin, _top |-> top, _min |-> 1023, _max |-> 0]

\* get_value() measuring relative from the minimum before this read.
get_value_stale_min(rd, raw) ==
  LET min0     == IF raw < rd._min THEN raw ELSE rd._min
      max0     == IF raw > rd._max THEN raw ELSE rd._max
      range    == max0 - min0
      relative == raw - rd._min
      value    == IF range = 0 THEN rd._top
                  ELSE Int16((rd._top * relative) \div range)
  IN [reader |-> [rd EXCEPT !._min = min0, !._max = max0], value |-> value]

\* get_value() returning 0 for a range of width 0.
get_value_zero(rd, raw) ==
  LET min0     == IF raw < rd._min THEN raw ELSE rd._min
      max0     == IF raw > rd._max THEN raw ELSE rd._max
      range    == max0 - min0
      relative == raw - min0
      value    == IF range = 0 THEN 0
                  ELSE Int16((rd._top * relative) \div range)
  IN [reader |-> [rd EXCEPT !._min = min0, !._max = max0], value |-> value]

\* get_value() recording the minimum with the comparison of the maximum.
get_value_min_up(rd, raw) ==
  LET min0     == IF raw > rd._min THEN raw ELSE rd._min
      max0     == IF raw > rd._max THEN raw ELSE rd._max
      range    == max0 - min0
      relative == raw - min0
      value    == IF range = 0 THEN rd._top
                  ELSE Int16((rd._top * relative) \div range)
  IN [reader |-> [rd EXCEPT !._min = min0, !._max = max0], value |-> value]

\* get_value() when analogRead() delivers raw: the reader afterwards and the
\* value returned.  The product is formed in uint32_t; with _top <= 1023 it
\* stays below 2^20.
\* get_value() without the cast to uint32_t: the product is a 16-bit int
\* and the division truncates towards 0.
get_value_int16(rd, raw) ==
  LET min0     == IF raw < rd._min THEN raw ELSE rd._min
      max0     == IF raw > rd._max THEN raw ELSE rd._max
      range    == max0 - min0
      relative == raw - min0
      product  == Int16(rd._top * relative)
      value    == IF range = 0 THEN rd._top
                  ELSE IF product >= 0 THEN product \div range
                  ELSE 0 - ((0 - product) \div range)
  IN [reader |-> [rd EXCEPT !._min = min0, !._max = max0], value |-> value]

get_value(rd, raw) ==
  LET min0     == IF raw < rd._min THEN raw ELSE rd._min
      max0     == IF raw > rd._max THEN raw ELSE rd._max
      range    == max0 - min0
      relative == raw - min0
      value    == IF range = 0 THEN rd._top
                  ELSE Int16((rd._top * relative) \div range)
  IN [reader |-> [rd EXCEPT !._min = min0, !._max = max0], value |-> value]

\* ------------------------------------------------------------------------
\* Direction and speed
\* ------------------------------------------------------------------------
\* set_direction_and_speed() with the deadband comparison <=.
set_direction_and_speed_wide(value) ==
  LET centered == value - CENTER
      v        == IF abs(centered) <= DEADBAND THEN 0 ELSE centered
  IN [direction |-> IF v < 0 THEN 1 ELSE IF v > 0 THEN -1 ELSE 0,
      speed     |-> abs(v)]

\* set_direction_and_speed() recentering by top / 2 = 511.
set_direction_and_speed_half_top(value) ==
  LET centered == value - (TOP \div 2)
      v        == IF abs(centered) < DEADBAND THEN 0 ELSE centered
  IN [direction |-> IF v < 0 THEN 1 ELSE IF v > 0 THEN -1 ELSE 0,
      speed     |-> abs(v)]

\* set_direction_and_speed() with the two directions exchanged.
set_direction_and_speed_flipped(value) ==
  LET centered == value - CENTER
      v        == IF abs(centered) < DEADBAND THEN 0 ELSE centered
  IN [direction |-> IF v < 0 THEN -1 ELSE IF v > 0 THEN 1 ELSE 0,
      speed     |-> abs(v)]

set_direction_and_speed(value) ==
  LET centered == value - CENTER
      v        == IF abs(centered) < DEADBAND THEN 0 ELSE centered
  IN [direction |-> IF v < 0 THEN 1 ELSE IF v > 0 THEN -1 ELSE 0,
      speed     |-> abs(v)]

\* get_settings() decoding the color settings from the movement value too.
get_settings_crossed(mv, cl) ==
  LET s == set_direction_and_speed(mv)
      c == set_direction_and_speed(mv)
  IN [steps_direction |-> s.direction, steps_speed |-> s.speed,
      color_direction |-> c.direction, color_speed |-> c.speed]

get_settings(mv, cl) ==
  LET s == set_direction_and_speed(mv)
      c == set_direction_and_speed(cl)
  IN [steps_direction |-> s.direction, steps_speed |-> s.speed,
      color_direction |-> c.direction, color_speed |-> c.speed]

NoSettings == [steps_direction |-> 0, steps_speed |-> 0,
               color_direction |-> 0, color_speed |-> 0]

\* ------------------------------------------------------------------------
\* State
\* ------------------------------------------------------------------------
\* step_leds() stepping back whenever the direction is not positive.
step_leds_never_still(st, s) ==
  IF s.steps_direction > 0
    THEN [st EXCEPT !.start_led = rem(st.start_led + 1, NUM_LEDS)]
  ELSE [st EXCEPT !.start_led = rem((st.start_led - 1) + NUM_LEDS, NUM_LEDS)]

\* step_leds() without the remainder after a forward step.
step_leds_no_wrap(st, s) ==
  IF s.steps_direction > 0
    THEN [st EXCEPT !.start_led = st.start_led + 1]
  ELSE IF s.steps_direction < 0
    THEN [st EXCEPT !.start_led = rem((st.start_led - 1) + NUM_LEDS, NUM_LEDS)]
  ELSE st

step_leds(st, s) ==
  IF s.steps_direction > 0
    THEN [st EXCEPT !.start_led = rem(st.start_led + 1, NUM_LEDS)]
  ELSE IF s.steps_direction < 0
    THEN [st EXCEPT !.start_led = rem((st.start_led - 1) + NUM_LEDS, NUM_LEDS)]
  ELSE st

\* step_color() without the += NUM_RAINBOW_LEDS before the remainder.
step_color_no_add(st, s) ==
  IF s.color_direction > 0
    THEN [st EXCEPT !.color_index = rem(st.color_index + 1, NUM_RAINBOW_LEDS)]
  ELSE IF s.color_direction < 0
    THEN [st EXCEPT !.color_index = rem(st.color_index - 1, NUM_RAINBOW_LEDS)]
  ELSE st

\* step_color() stepping forward also when the direction is 0.
step_color_never_still(st, s) ==
  IF s.color_direction >= 0
    THEN [st EXCEPT !.color_index = rem(st.color_index + 1, NUM_RAINBOW_LEDS)]
  ELSE [st EXCEPT !.color_index =
          rem((st.color_index - 1) + NUM_RAINBOW_LEDS, NUM_RAINBOW_LEDS)]

step_color(st, s) ==
  IF s.color_direction > 0
    THEN [st EXCEPT !.color_index = rem(st.color_index + 1, NUM_RAINBOW_LEDS)]
  ELSE IF s.color_direction < 0
    THEN [st EXCEPT !.color_index =
            rem((st.color_index - 1) + NUM_RAINBOW_LEDS, NUM_RAINBOW_LEDS)]
  ELSE st

\* ------------------------------------------------------------------------
\* CountTrigger
\* ------------------------------------------------------------------------
CountTrigger == [_counter |-> 0, _level |-> 0]

\* set_trigger_level() starting the count afresh.
set_trigger_level_reset(t, level) == [t EXCEPT !._level = level, !._counter = 0]

set_trigger_level(t, level) == [t EXCEPT !._level = level]

\* tick() comparing with > where the code compares with >=.
tick_late(t) ==
  LET c == t._counter + 1
  IN IF c > t._level
       THEN [trigger |-> [t EXCEPT !._counter = 0], fired |-> TRUE]
       ELSE [trigger |-> [t EXCEPT !._counter = c], fired |-> FALSE]

\* tick() restarting the counter at 1 when it fires.
tick_reset_to_one(t) ==
  LET c == t._counter + 1
  IN IF c >= t._level
       THEN [trigger |-> [t EXCEPT !._counter = 1], fired |-> TRUE]
       ELSE [trigger |-> [t EXCEPT !._counter = c], fired |-> FALSE]

\* tick(): the trigger afterwards and the value returned.  The counter is a
\* uint32_t; it is reset long before it can wrap.
tick(t) ==
  LET c == t._counter + 1
  IN IF c >= t._level
       THEN [trigger |-> [t EXCEPT !._counter = 0], fired |-> TRUE]
       ELSE [trigger |-> [t EXCEPT !._counter = c], fired |-> FALSE]

\* ------------------------------------------------------------------------
\* reverse_and_expo
\* ------------------------------------------------------------------------
\* floor(2^(j/64) * 2^22) for j = 0..63: the fractional powers of two that
\* pow(2, value / 64.0) takes, in fixed point.
Exp2Frac ==
  << 4194304, 4239976, 4286147, 4332820, 4380001, 4427696, 4475911, 4524650,
     4573920, 4623727, 4674076, 4724974, 4776425, 4828437, 4881015, 4934166,
     4987896, 5042210, 5097116, 5152620, 5208729, 5265448, 5322785, 5380746,
     5439339, 5498569, 5558445, 5618972, 5680159, 5742012, 5804538, 5867746,
     5931641, 5996232, 6061527, 6127533, 6194257, 6261708, 6329894, 6398822,
     6468501, 6538938, 6610142, 6682122, 6754886, 6828441, 6902798, 6977965,
     7053950, 7130762, 7208411, 7286906, 7366255, 7446468, 7527555, 7609525,
     7692387, 7776152, 7860828, 7946427, 8032958, 8120431, 8208857, 8298246 >>

\* The integer part of pow(2, value / 64.0) for value in 0..512.
Pow2Floor(value) ==
  ((2 ^ (value \div EXPO_DIV)) * Exp2Frac[(value % EXPO_DIV) + 1]) \div (2 ^ 22)

\* reverse_and_expo() without the reversal 512 - abs(value).
reverse_and_expo_no_reverse(value) ==
  LET folded == abs(value)
      v      == IF folded = 0 THEN 1 ELSE folded
  IN 1 + Pow2Floor(v)

\* reverse_and_expo() returning pow(2, value / 64.0) without the 1 added.
reverse_and_expo_no_one(value) ==
  LET folded == HALF_RANGE - abs(value)
      v      == IF folded = 0 THEN 1 ELSE folded
  IN Pow2Floor(v)

\* The double 1 + pow(2, value / 64.0) is truncated by the return as int.
reverse_and_expo(value) ==
  LET folded == HALF_RANGE - abs(value)
      v      == IF folded = 0 THEN 1 ELSE folded
  IN 1 + Pow2Floor(v)

\* ------------------------------------------------------------------------
\* Raw samples
\* ------------------------------------------------------------------------
Grid(n) == {(i * RAW_MAX) \div n : i \in 0..n}
\* In the whole program each pot is at an end stop or at its centre.
LoopSamples == {0, RAW_MAX \div 2, RAW_MAX}
ReaderSamples == Grid(NumReaderSamples)

\* ------------------------------------------------------------------------
\* The program: static initialisation, setup(), loop()
\* ------------------------------------------------------------------------
InitStrip ==
  /\ pc = "setup"
  /\ green = ZeroTable /\ red = ZeroTable /\ blue = ZeroTable
  /\ leds = ZeroLeds

InitPots ==
  /\ steps_reader = AnalogReader(1, TOP)
  /\ color_reader = AnalogReader(0, TOP)
  /\ raw_steps = 0 /\ raw_color = 0
  /\ steps_seen = {} /\ color_seen = {}
  /\ movement = 0 /\ color = 0

\* Before the first run of loop() there is no run to remember.
NoPrev ==
  [start_led |-> 0, color_index |-> 0, steps_counter |-> 0,
   color_counter |-> 0, steps_fired |-> FALSE, color_fired |-> FALSE,
   before_start_led |-> 0, before_color_index |-> 0, leds |-> ZeroLeds]

\* No index has stepped yet.
NoSince == [steps |-> 0, color |-> 0, steps_stepped |-> FALSE,
            color_stepped |-> FALSE]

\* No second run has been started.
NoTwin == [shares |-> "none"]

InitAnim ==
  /\ state = [start_led |-> 0, color_index |-> 0]
  /\ prev = NoPrev
  /\ iter = 0
  /\ calls = 0
  /\ twin = NoTwin
  /\ since = NoSince

InitTriggers ==
  /\ steps_trigger = CountTrigger
  /\ color_trigger = CountTrigger
  /\ steps_fired = FALSE /\ color_fired = FALSE

Init ==
  /\ InitStrip
  /\ InitPots
  /\ settings = NoSettings
  /\ InitAnim
  /\ InitTriggers

Setup ==
  /\ pc = "setup"
  /\ green' = FillTable(green, 0, 0)
  /\ red'   = FillTable(red, 1, 0)
  /\ blue'  = FillTable(blue, 2, 0)
  /\ leds'  = AllOff(leds)
  /\ pc' = "loop"
  /\ UNCHANGED <<twin, since, steps_reader, color_reader, raw_steps, raw_color,
                 steps_seen,
                 color_seen, movement, color, settings, state, steps_trigger,
                 color_trigger, steps_fired, color_fired, prev, iter, calls>>

\* What loop() reads and writes, as one record.
Prog ==
  [green |-> green, red |-> red, blue |-> blue, leds |-> leds,
   steps_reader |-> steps_reader, color_reader |-> color_reader,
   raw_steps |-> raw_steps, raw_color |-> raw_color,
   steps_seen |-> steps_seen, color_seen |-> color_seen,
   movement |-> movement, color |-> color, settings |-> settings,
   state |-> state, steps_trigger |-> steps_trigger,
   color_trigger |-> color_trigger, steps_fired |-> steps_fired,
   color_fired |-> color_fired, prev |-> prev, iter |-> iter]

\* One run of loop() from P, the pots delivering rs and rc.
loop(P, rs, rc) ==
  LET sr  == get_value(P.steps_reader, rs)
      cr  == get_value(P.color_reader, rc)
      s   == get_settings(sr.value, cr.value)
      off == TurnOff(P.leds, P.state.start_led, 0)
      st  == tick(set_trigger_level(P.steps_trigger,
                                    reverse_and_expo(s.steps_speed)))
      ct  == tick(set_trigger_level(P.color_trigger,
                                    reverse_and_expo(s.color_speed)))
      s1  == IF st.fired THEN step_leds(P.state, s) ELSE P.state
      s2  == IF ct.fired THEN step_color(s1, s) ELSE s1
  IN [P EXCEPT !.steps_reader = sr.reader, !.color_reader = cr.reader,
               !.raw_steps = rs, !.raw_color = rc,
               !.steps_seen = P.steps_seen \cup {rs},
               !.color_seen = P.color_seen \cup {rc},
               !.movement = sr.value, !.color = cr.value,
               !.settings = s,
               !.steps_trigger = st.trigger, !.color_trigger = ct.trigger,
               !.steps_fired = st.fired, !.color_fired = ct.fired,
               !.state = s2,
               !.leds = SetColors(off, s2, P.red, P.green, P.blue, 0),
               !.prev = [start_led |-> P.state.start_led,
                         color_index |-> P.state.color_index,
                         steps_counter |-> P.steps_trigger._counter,
                         color_counter |-> P.color_trigger._counter,
                         steps_fired |-> P.steps_fired,
                         color_fired |-> P.color_fired,
                         before_start_led |-> P.prev.start_led,
                         before_color_index |-> P.prev.color_index,
                         leds |-> P.leds],
               !.iter = P.iter + 1]

\* k consecutive runs of loop() with the pots held at rs and rc: the first
\* half of the runs, then the rest from where they end.
RECURSIVE loops(_, _, _, _)
loops(P, rs, rc, k) ==
  IF k = 0 THEN P
  ELSE IF k = 1 THEN loop(P, rs, rc)
  ELSE CHOOSE R \in {loops(Q, rs, rc, k - (k \div 2)) :
                       Q \in {loops(P, rs, rc, k \div 2)}} : TRUE

\* The variables take the values of the record Q.
Becomes(Q) ==
  /\ leds' = Q.leds
  /\ steps_reader' = Q.steps_reader /\ color_reader' = Q.color_reader
  /\ raw_steps' = Q.raw_steps /\ raw_color' = Q.raw_color
  /\ steps_seen' = Q.steps_seen /\ color_seen' = Q.color_seen
  /\ movement' = Q.movement /\ color' = Q.color
  /\ settings' = Q.settings
  /\ state' = Q.state
  /\ steps_trigger' = Q.steps_trigger /\ color_trigger' = Q.color_trigger
  /\ steps_fired' = Q.steps_fired /\ color_fired' = Q.color_fired
  /\ prev' = Q.prev
  /\ iter' = Q.iter

\* One run of loop().
Loop(rs, rc) ==
  /\ pc = "loop"
  /\ calls < MaxIter
  /\ Becomes(loop(Prog, rs, rc))
  /\ calls' = calls + 1
  /\ UNCHANGED <<twin, since, pc, green, red, blue>>

\* HoldLen runs of loop() in a row while nobody touches the pots: each run
\* reads the samples of the run before.  The pots are left alone once.
Hold ==
  /\ pc = "loop"
  /\ iter > 0
  /\ iter < HoldLen
  /\ calls < MaxIter
  /\ Becomes(loops(Prog, raw_steps, raw_color, HoldLen))
  /\ calls' = calls + 1
  /\ UNCHANGED <<twin, since, pc, green, red, blue>>

Next ==
  \/ Setup
  \/ \E rs \in LoopSamples, rc \in LoopSamples : Loop(rs, rc)
  \/ Hold

Spec == Init /\ [][Next]_vars

\* C2: in every run of loop() the leading index moves only if the worm
\* trigger fired in that run and the worm direction is not 0, and then by
\* one step in that direction modulo 144; the trigger is ticked whatever the
\* direction (its counter advances by one, or is reset to 0 when it fires).
\* The same for the color index modulo 12.
C2_StepRule ==
  iter > 0 =>
    /\ state.start_led =
         IF steps_fired /\ settings.steps_direction # 0
           THEN (prev.start_led + settings.steps_direction) % NUM_LEDS
           ELSE prev.start_led
    /\ state.color_index =
         IF color_fired /\ settings.color_direction # 0
           THEN (prev.color_index + settings.color_direction) % NUM_RAINBOW_LEDS
           ELSE prev.color_index
    /\ settings.steps_direction \in {-1, 0, 1}
    /\ settings.color_direction \in {-1, 0, 1}
    /\ steps_trigger._counter =
         IF steps_fired THEN 0 ELSE prev.steps_counter + 1
    /\ color_trigger._counter =
         IF color_fired THEN 0 ELSE prev.color_counter + 1

\* Both triggers fire while both directions are 0: the counters are reset
\* and nothing moves.
C2_Witness ==
  /\ iter > 0
  /\ steps_fired /\ settings.steps_direction = 0
  /\ color_fired /\ settings.color_direction = 0
  /\ steps_trigger._counter = 0
  /\ state.start_led = prev.start_led
  /\ state.start_led # 0

\* C3: start_led stays in [0, 144) and color_index in [0, 12); a step from
\* 143 in direction +1 ends at 0 and a step from 0 in direction -1 ends at
\* 143, and likewise 11 -> 0 and 0 -> 11 for the color index.
C3_IndexBounds ==
  /\ state.start_led \in 0..(NUM_LEDS - 1)
  /\ state.color_index \in 0..(NUM_RAINBOW_LEDS - 1)
  /\ (iter > 0 /\ steps_fired /\ settings.steps_direction > 0
        /\ prev.start_led = NUM_LEDS - 1) => state.start_led = 0
  /\ (iter > 0 /\ steps_fired /\ settings.steps_direction < 0
        /\ prev.start_led = 0) => state.start_led = NUM_LEDS - 1
  /\ (iter > 0 /\ color_fired /\ settings.color_direction > 0
        /\ prev.color_index = NUM_RAINBOW_LEDS - 1) => state.color_index = 0
  /\ (iter > 0 /\ color_fired /\ settings.color_direction < 0
        /\ prev.color_index = 0) => state.color_index = NUM_RAINBOW_LEDS - 1

\* After both indices stepped back below 0, to 143 and 11, both step forward
\* over the end, to 0, in the fourth run of loop().
C3_Witness ==
  /\ iter = 4
  /\ steps_fired /\ settings.steps_direction = 1
  /\ prev.start_led = NUM_LEDS - 1 /\ state.start_led = 0
  /\ color_fired /\ settings.color_direction = 1
  /\ prev.color_index = NUM_RAINBOW_LEDS - 1 /\ state.color_index = 0

\* The LEDs of the window that starts at start_led.
Window == {(state.start_led + i) % NUM_LEDS : i \in 0..(NUM_RAINBOW_LEDS - 1)}

\* C10: at every FastLED.show() the LED at (start_led + i) mod 144 holds the
\* color of table slot (color_index + i) mod 12, for the indices as updated
\* in that run of loop(), and every LED outside these 12 is black: the
\* window of the run before has been turned off where it was.
C10_Frame ==
  (pc = "loop" /\ iter > 0) =>
    /\ \A i \in 0..(NUM_RAINBOW_LEDS - 1) :
          LET slot == (state.color_index + i) % NUM_RAINBOW_LEDS
          IN leds[(state.start_led + i) % NUM_LEDS] =
               CRGB(red[slot], green[slot], blue[slot])
    /\ \A p \in 0..(NUM_LEDS - 1) : p \notin Window => leds[p] = Black
    /\ \A p \in Window : leds[p] # Black

\* A frame drawn after the worm stepped back across the start of the strip,
\* its window wrapping around the end, with the colors shifted.
C10_Witness ==
  /\ pc = "loop" /\ iter > 0
  /\ steps_fired /\ prev.start_led = 0 /\ state.start_led = NUM_LEDS - 1
  /\ state.color_index # 0
  /\ leds[NUM_LEDS - 1] # Black /\ leds[10] # Black /\ leds[11] = Black

\* C11: in a run of loop() in which both decoded directions are 0, start_led
\* and color_index keep the values they had when the run began, whatever the
\* two triggers return, and the LEDs handed to FastLED.show() are those of
\* the run before; so they are the same all through a sequence of such runs.
C11_StillFrame ==
  (iter > 0 /\ settings.steps_direction = 0 /\ settings.color_direction = 0) =>
    /\ state.start_led = prev.start_led
    /\ state.color_index = prev.color_index
    /\ leds = prev.leds

\* Both triggers fire in a run with both directions 0, after the worm has
\* left LED 0: the frame of the run before is shown again.
C11_Witness ==
  /\ iter > 1
  /\ settings.steps_direction = 0 /\ settings.color_direction = 0
  /\ steps_fired /\ color_fired
  /\ state.start_led # 0 /\ state.color_index # 0
  /\ leds = prev.leds
  /\ leds[state.start_led] # Black

\* C16: once setup() has run, green, red and blue hold the intensity
\* progression rotated by 0, 4 and 8 slots: the maximum at slots 1-5 of
\* green, 5-9 of red and 9, 10, 11, 0, 1 of blue, the medium intensity at
\* slots 0 and 6 of green, 4 and 10 of red, 8 and 2 of blue, and 0 at every
\* other slot; no run of loop() writes them.
C16_ColorTables ==
  pc = "loop" =>
    /\ \A i \in 0..(NUM_RAINBOW_LEDS - 1) :
          /\ green[i] = intensity_progression[i]
          /\ red[(i + 4) % NUM_RAINBOW_LEDS] = intensity_progression[i]
          /\ blue[(i + 8) % NUM_RAINBOW_LEDS] = intensity_progression[i]
    /\ green = [j \in 0..11 |-> IF j \in 1..5 THEN 30
                                 ELSE IF j \in {0, 6} THEN 7 ELSE 0]
    /\ red   = [j \in 0..11 |-> IF j \in 5..9 THEN 30
                                 ELSE IF j \in {4, 10} THEN 7 ELSE 0]
    /\ blue  = [j \in 0..11 |-> IF j \in {9, 10, 11, 0, 1} THEN 30
                                 ELSE IF j \in {8, 2} THEN 7 ELSE 0]

\* The arrays as setup() filled them, after more than HoldLen runs of loop().
C16_Witness ==
  /\ pc = "loop" /\ iter > HoldLen
  /\ green[1] = MAX_INTENSITY /\ red[5] = MAX_INTENSITY
  /\ blue[0] = MAX_INTENSITY /\ blue[2] = MEDIUM_INTENSITY
  /\ red[0] = 0

\* C18: while a pot has delivered one raw value only, its reader returns
\* 1023, the direction is -1, the speed 511 and the level 2, so the trigger
\* fires in every second run of loop() and the index steps back by one each
\* time (start_led is 143 after the second run); a direction of 0 needs two
\* different raw values.
C18_OneValueSeen ==
  iter > 0 =>
    /\ Cardinality(steps_seen) = 1 =>
          /\ movement = TOP
          /\ settings.steps_direction = -1 /\ settings.steps_speed = 511
          /\ steps_trigger._level = 2
          /\ steps_fired <=> (iter % 2 = 0)
          /\ state.start_led = (0 - (iter \div 2)) % NUM_LEDS
    /\ Cardinality(color_seen) = 1 =>
          /\ color = TOP
          /\ settings.color_direction = -1 /\ settings.color_speed = 511
          /\ color_trigger._level = 2
          /\ color_fired <=> (iter % 2 = 0)
          /\ state.color_index = (0 - (iter \div 2)) % NUM_RAINBOW_LEDS
    /\ settings.steps_direction = 0 => Cardinality(steps_seen) >= 2
    /\ settings.color_direction = 0 => Cardinality(color_seen) >= 2

\* The speed pot rests at its centre for two runs of loop(): the worm has
\* stepped back to LED 143.
C18_Witness ==
  /\ iter = 2
  /\ steps_seen = {RAW_MAX \div 2}
  /\ settings.steps_direction = -1
  /\ steps_fired /\ state.start_led = NUM_LEDS - 1

\* C19: in every run of loop() each trigger is ticked with a level of at
\* least 2 and its counter is below that level afterwards; no trigger fires
\* in two runs in a row, so no index changes in two runs in a row, also when
\* the level changes between them.
C19_StepRate ==
  iter > 0 =>
    /\ steps_trigger._level >= 2 /\ color_trigger._level >= 2
    /\ steps_trigger._counter < steps_trigger._level
    /\ color_trigger._counter < color_trigger._level
    /\ ~(steps_fired /\ prev.steps_fired)
    /\ ~(color_fired /\ prev.color_fired)
    /\ ~(state.start_led # prev.start_led
           /\ prev.start_led # prev.before_start_led)
    /\ ~(state.color_index # prev.color_index
           /\ prev.color_index # prev.before_color_index)

\* The level drops to 2 when the counter has already reached it: the worm
\* trigger fires in this run, and it did not in the run before.
C19_Witness ==
  /\ iter > 1
  /\ steps_trigger._level = 2
  /\ prev.steps_counter >= steps_trigger._level
  /\ steps_fired /\ ~prev.steps_fired
  /\ state.start_led # prev.start_led

\* ------------------------------------------------------------------------
\* Two runs of the program side by side that read the same samples on one
\* channel and any samples on the other
\* ------------------------------------------------------------------------
\* After setup() a second program starts; ch is the channel it shares.
Fork(ch) ==
  /\ pc = "loop"
  /\ iter = 0
  /\ twin = NoTwin
  /\ twin' = [shares |-> ch, run |-> Prog]
  /\ UNCHANGED <<pc, green, red, blue, leds, steps_reader, color_reader,
                 raw_steps, raw_color, steps_seen, color_seen, movement, color,
                 settings, state, steps_trigger, color_trigger, steps_fired,
                 color_fired, prev, iter, calls, since>>

\* One run of loop() in each program: this one reads rs and rc, the second
\* one reads the same sample on the channel it shares and ro on the other.
PairLoop(rs, rc, ro) ==
  /\ pc = "loop"
  /\ twin # NoTwin
  /\ calls < MaxPairIter
  /\ Becomes(loop(Prog, rs, rc))
  /\ twin' = [twin EXCEPT !.run =
                 IF twin.shares = "steps" THEN loop(twin.run, rs, ro)
                                          ELSE loop(twin.run, ro, rc)]
  /\ calls' = calls + 1
  /\ UNCHANGED <<pc, green, red, blue, since>>

NextPair ==
  \/ Setup
  \/ \E ch \in {"steps", "color"} : Fork(ch)
  \/ \E rs \in LoopSamples, rc \in LoopSamples, ro \in LoopSamples :
        PairLoop(rs, rc, ro)

SpecPair == Init /\ [][NextPair]_vars

\* C17: two runs of the program that read the same samples on the worm
\* channel have, after every run of loop(), the same start_led, the same
\* worm trigger and the same bounds in steps_reader, whatever they read on
\* the color channel; two runs that read the same samples on the color
\* channel have the same color_index, color trigger and bounds in
\* color_reader.
C17_Independence ==
  /\ twin.shares = "steps" =>
        /\ twin.run.state.start_led = state.start_led
        /\ twin.run.steps_trigger = steps_trigger
        /\ twin.run.steps_fired = steps_fired
        /\ twin.run.steps_reader = steps_reader
  /\ twin.shares = "color" =>
        /\ twin.run.state.color_index = state.color_index
        /\ twin.run.color_trigger = color_trigger
        /\ twin.run.color_fired = color_fired
        /\ twin.run.color_reader = color_reader

\* Two runs with the same worm samples whose color channels have come
\* apart: one color pot is calibrated and at rest, the other is not.
C17_Witness ==
  /\ twin.shares = "steps"
  /\ calls = MaxPairIter
  /\ twin.run.state.color_index # state.color_index
  /\ twin.run.color_reader # color_reader
  /\ twin.run.settings.color_direction = 0 /\ settings.color_direction # 0
  /\ twin.run.state.start_led = state.start_led
  /\ state.start_led # 0

\* ------------------------------------------------------------------------
\* A CountTrigger on its own, its level set once and then held
\* ------------------------------------------------------------------------
InitTrigger ==
  /\ InitStrip
  /\ InitPots
  /\ settings = NoSettings
  /\ InitAnim
  /\ color_trigger = CountTrigger
  /\ steps_fired = FALSE /\ color_fired = FALSE
  /\ \E level \in 1..MaxLevel :
        steps_trigger = set_trigger_level(CountTrigger, level)

HeldTick ==
  /\ calls < MaxTicks
  /\ LET t == tick(steps_trigger)
     IN /\ steps_trigger' = t.trigger
        /\ steps_fired' = t.fired
  /\ calls' = calls + 1
  /\ UNCHANGED <<twin, since, pc, green, red, blue, leds, steps_reader,
                 color_reader,
                 raw_steps, raw_color, steps_seen, color_seen, movement, color,
                 settings, state, color_trigger, color_fired, prev, iter>>

NextTrigger == HeldTick

SpecTrigger == InitTrigger /\ [][NextTrigger]_vars

\* C1: with the level held at L >= 1 and the counter starting at 0, the
\* n-th call of tick() returns true exactly when n is a multiple of L: false
\* on the first L-1 calls, true on the L-th, then once in every L calls; the
\* counter holds the calls since the last firing.
C1_TriggerPeriod ==
  calls > 0 =>
    /\ steps_fired <=> (calls % steps_trigger._level = 0)
    /\ steps_trigger._counter = calls % steps_trigger._level

\* The third firing of a trigger of level 3, on its ninth call.
C1_Witness ==
  /\ steps_trigger._level = 3
  /\ calls = 9
  /\ steps_fired

\* ------------------------------------------------------------------------
\* A CountTrigger on its own, its level set anew between ticks
\* ------------------------------------------------------------------------
SetLevel(level) ==
  /\ level # steps_trigger._level
  /\ steps_trigger' = set_trigger_level(steps_trigger, level)
  /\ UNCHANGED <<pc, green, red, blue, leds, steps_reader, color_reader,
                 raw_steps, raw_color, steps_seen, color_seen, movement, color,
                 settings, state, color_trigger, steps_fired, color_fired,
                 prev, iter, calls, twin, since>>

Tick ==
  /\ calls < MaxTicks
  /\ LET t == tick(steps_trigger)
     IN /\ steps_trigger' = t.trigger
        /\ steps_fired' = t.fired
  /\ prev' = [prev EXCEPT !.steps_counter = steps_trigger._counter,
                          !.steps_fired = steps_fired]
  /\ calls' = calls + 1
  /\ UNCHANGED <<pc, green, red, blue, leds, steps_reader, color_reader,
                 raw_steps, raw_color, steps_seen, color_seen, movement, color,
                 settings, state, color_trigger, color_fired, iter, twin,
                 since>>

NextRetune ==
  \/ \E level \in 0..MaxLevel : SetLevel(level)
  \/ Tick

SpecRetune == Init /\ [][NextRetune]_vars

\* C13: set_trigger_level() changes the level and leaves the counter as it
\* is; the next tick() compares the counter, advanced by one, with the level
\* set last, so a level lowered to or below the counter makes that tick
\* fire and reset the counter to 0.
C13_LevelChange ==
  /\ [][steps_trigger'._level # steps_trigger._level
          => /\ steps_trigger'._counter = steps_trigger._counter
             /\ steps_fired' = steps_fired]_vars
  /\ [][calls' = calls + 1
          => /\ steps_trigger'._level = steps_trigger._level
             /\ steps_fired' <=>
                  (steps_trigger._counter + 1 >= steps_trigger._level)
             /\ steps_trigger._level <= steps_trigger._counter
                  => (steps_fired' /\ steps_trigger'._counter = 0)]_vars

\* After five ticks without firing the level is lowered to 2: the sixth
\* tick fires and the counter is back at 0.
C13_Witness ==
  /\ calls = 6
  /\ prev.steps_counter = 5
  /\ steps_trigger._level = 2
  /\ steps_fired /\ ~prev.steps_fired
  /\ steps_trigger._counter = 0

\* ------------------------------------------------------------------------
\* An AnalogReader on its own
\* ------------------------------------------------------------------------
Read(raw) ==
  /\ calls < MaxReads
  /\ LET r == get_value(steps_reader, raw)
     IN /\ steps_reader' = r.reader
        /\ movement' = r.value
  /\ raw_steps' = raw
  /\ steps_seen' = steps_seen \cup {raw}
  /\ calls' = calls + 1
  /\ UNCHANGED <<twin, since, pc, green, red, blue, leds, color_reader,
                 raw_color,
                 color_seen, color, settings, state, steps_trigger,
                 color_trigger, steps_fired, color_fired, prev, iter>>

NextReader == \E raw \in ReaderSamples : Read(raw)

SpecReader == Init /\ [][NextReader]_vars

\* C4: whatever raw samples of [0, 1023] a reader with top 1023 is fed,
\* every value get_value() returns lies in [0, top].
C4_ValueInRange ==
  calls > 0 => movement \in 0..steps_reader._top

\* A sample strictly inside the calibrated range, mapped strictly inside
\* [0, top].
C4_Witness ==
  /\ calls = 3
  /\ steps_reader._min < raw_steps /\ raw_steps < steps_reader._max
  /\ 0 < movement /\ movement < steps_reader._top

\* C5: a reader that has seen one distinct raw value so far, its first call
\* included, returns exactly top.
C5_ZeroWidth ==
  (calls > 0 /\ Cardinality(steps_seen) = 1) => movement = steps_reader._top

\* The same raw value, neither 0 nor 1023, read twice.
C5_Witness ==
  /\ calls = 2
  /\ Cardinality(steps_seen) = 1
  /\ raw_steps \in 1..(RAW_MAX - 1)
  /\ steps_reader._min = steps_reader._max
  /\ movement = TOP

\* C6: the observed minimum never increases and the observed maximum never
\* decreases; before any read they are 1023 and 0; after a read
\* min <= sample <= max, so min <= max.
C6_OnlyWidens ==
  /\ [](calls = 0 => (steps_reader._min = 1023 /\ steps_reader._max = 0))
  /\ [](calls > 0 => /\ steps_reader._min <= raw_steps
                      /\ raw_steps <= steps_reader._max
                      /\ steps_reader._min <= steps_reader._max)
  /\ [][/\ steps_reader'._min <= steps_reader._min
        /\ steps_reader'._max >= steps_reader._max]_vars

\* Three reads of which the second lowered the minimum and the third
\* raised the maximum.
C6_Witness ==
  /\ calls = 3
  /\ Cardinality(steps_seen) = 3
  /\ raw_steps = steps_reader._max
  /\ steps_reader._min = 0
  /\ steps_reader._max = RAW_MAX

\* C15: when the observed range, widened by the sample just read, is not
\* empty, get_value() returns floor(top * (sample - min) / (max - min)): 0
\* for a sample at the minimum and top for a sample at the maximum; the
\* product top * (sample - min) is never negative and stays below 2^32.
C15_Interpolation ==
  (calls > 0 /\ steps_reader._min < steps_reader._max) =>
    LET product == steps_reader._top * (raw_steps - steps_reader._min)
    IN /\ movement = product \div (steps_reader._max - steps_reader._min)
       /\ raw_steps = steps_reader._min => movement = 0
       /\ raw_steps = steps_reader._max => movement = steps_reader._top
       /\ product >= 0
       /\ product \div 65536 < 65536

\* A sample strictly inside the observed range whose product with top is
\* beyond 16 bits.
C15_Witness ==
  /\ calls = 3
  /\ steps_reader._min < raw_steps /\ raw_steps < steps_reader._max
  /\ steps_reader._top * (raw_steps - steps_reader._min) > 65535
  /\ movement = (steps_reader._top * (raw_steps - steps_reader._min))
                  \div (steps_reader._max - steps_reader._min)
  /\ movement > 0

\* ------------------------------------------------------------------------
\* get_settings on a normalized value and its mirror images
\* ------------------------------------------------------------------------
\* v mirrored in [0, top] and mirrored about the constant subtracted.
Mirrors(v) == {TOP - v, (2 * CENTER) - v} \cap (0..TOP)

InitDecoder ==
  /\ InitStrip
  /\ steps_reader = AnalogReader(1, TOP)
  /\ color_reader = AnalogReader(0, TOP)
  /\ raw_steps = 0 /\ raw_color = 0
  /\ steps_seen = {} /\ color_seen = {}
  /\ movement \in 0..TOP
  /\ color \in Mirrors(movement)
  /\ settings = NoSettings
  /\ InitAnim
  /\ InitTriggers

Decode ==
  /\ calls = 0
  /\ settings' = get_settings(movement, color)
  /\ calls' = 1
  /\ UNCHANGED <<twin, since, pc, green, red, blue, leds, steps_reader,
                 color_reader,
                 raw_steps, raw_color, steps_seen, color_seen, movement, color,
                 state, steps_trigger, color_trigger, steps_fired, color_fired,
                 prev, iter>>

NextDecoder == Decode

SpecDecoder == InitDecoder /\ [][NextDecoder]_vars

\* C7 as claimed: direction 0 and speed 0 when |v - top/2| < 32 and a
\* direction other than 0 when |v - top/2| = 32, top/2 being 511.
C7_DeadZoneAtHalfTop ==
  calls = 1 =>
    /\ abs(movement - (TOP \div 2)) < DEADBAND =>
         (settings.steps_direction = 0 /\ settings.steps_speed = 0)
    /\ abs(movement - (TOP \div 2)) = DEADBAND =>
         settings.steps_direction # 0

\* C7 amended: direction 0 and speed 0 when |v - 512| < 32 and a direction
\* other than 0, with speed 32, when |v - 512| = 32.
C7_DeadZone ==
  calls = 1 =>
    /\ abs(movement - CENTER) < DEADBAND =>
         (settings.steps_direction = 0 /\ settings.steps_speed = 0)
    /\ abs(movement - CENTER) = DEADBAND =>
         (settings.steps_direction # 0 /\ settings.steps_speed = DEADBAND)

\* v = 480, on the boundary: direction +1 at speed 32.
C7_Witness ==
  /\ calls = 1
  /\ movement = CENTER - DEADBAND
  /\ settings.steps_direction = 1
  /\ settings.steps_speed = DEADBAND

\* C8 as claimed: for v outside the dead zone, 1023 - v decodes to the
\* opposite direction and the same speed.
C8_OddSymmetryAtTop ==
  (calls = 1 /\ color = TOP - movement /\ settings.steps_direction # 0) =>
    /\ settings.color_direction = 0 - settings.steps_direction
    /\ settings.color_speed = settings.steps_speed

\* C8 amended: for v outside the dead zone, 1024 - v decodes to the opposite
\* direction and the same speed; 1023 - v decodes to the opposite direction
\* unless v = 480, and to a speed one lower when v < 512 and one higher when
\* v > 512.
C8_OddSymmetry ==
  (calls = 1 /\ settings.steps_direction # 0) =>
    /\ color = (2 * CENTER) - movement =>
         /\ settings.color_direction = 0 - settings.steps_direction
         /\ settings.color_speed = settings.steps_speed
    /\ (color = TOP - movement /\ movement # CENTER - DEADBAND) =>
         /\ settings.color_direction = 0 - settings.steps_direction
         /\ settings.color_speed =
              settings.steps_speed + (IF movement < CENTER THEN -1 ELSE 1)
    /\ (color = TOP - movement /\ movement = CENTER - DEADBAND) =>
         (settings.color_direction = 0 /\ settings.color_speed = 0)

\* v = 0 and its mirror 1023: directions +1 and -1, speeds 512 and 511.
C8_Witness ==
  /\ calls = 1
  /\ movement = 0 /\ color = TOP
  /\ settings.steps_direction = 1 /\ settings.color_direction = -1
  /\ settings.steps_speed = 512 /\ settings.color_speed = 511

\* C14: with centered = v - 512, set to 0 inside the dead zone, the
\* direction is +1 for centered < 0, -1 for centered > 0 and 0 for
\* centered = 0, and the speed is |centered|: the direction is one of -1,
\* 0, 1, the speed lies in [0, 512], and the direction is 0 exactly when the
\* speed is 0.  The same for both channels.
C14_SignAndRanges ==
  calls = 1 =>
    LET cs == IF abs(movement - 512) < 32 THEN 0 ELSE movement - 512
        cc == IF abs(color - 512) < 32 THEN 0 ELSE color - 512
    IN /\ settings.steps_direction =
            (IF cs < 0 THEN 1 ELSE IF cs > 0 THEN -1 ELSE 0)
       /\ settings.color_direction =
            (IF cc < 0 THEN 1 ELSE IF cc > 0 THEN -1 ELSE 0)
       /\ settings.steps_speed = abs(cs) /\ settings.color_speed = abs(cc)
       /\ movement <= 480 => settings.steps_speed = 512 - movement
       /\ movement >= 544 => settings.steps_speed = movement - 512
       /\ settings.steps_direction \in {-1, 0, 1}
       /\ settings.color_direction \in {-1, 0, 1}
       /\ settings.steps_speed \in 0..512 /\ settings.color_speed \in 0..512
       /\ settings.steps_direction = 0 <=> settings.steps_speed = 0
       /\ settings.color_direction = 0 <=> settings.color_speed = 0

\* v = 1023: direction -1 at speed 511, while its mirror image 1 decodes to
\* direction +1 at speed 511.
C14_Witness ==
  /\ calls = 1
  /\ movement = TOP /\ color = 1
  /\ settings.steps_direction = -1 /\ settings.steps_speed = 511
  /\ settings.color_direction = 1 /\ settings.color_speed = 511

\* ------------------------------------------------------------------------
\* The trigger level set from a speed
\* ------------------------------------------------------------------------
Relevel(speed) ==
  /\ settings' = [settings EXCEPT !.steps_speed = speed]
  /\ steps_trigger' =
       set_trigger_level(steps_trigger, reverse_and_expo(speed))
  /\ UNCHANGED <<twin, since, pc, green, red, blue, leds, steps_reader,
                 color_reader,
                 raw_steps, raw_color, steps_seen, color_seen, movement, color,
                 state, color_trigger, steps_fired, color_fired, prev, iter,
                 calls>>

NextLevel == \E speed \in 0..HALF_RANGE : Relevel(speed)

SpecLevel == Init /\ [][NextLevel]_vars

\* C9: the level is an integer of 2..257 for every speed of [0, 512], it is
\* 257 at speed 0 and 2 at speed 512, where the folded value 0 is clamped
\* to 1, and it never grows when the speed grows.
C9_LevelCurve ==
  /\ [](steps_trigger._level # 0 =>
          /\ steps_trigger._level \in 2..257
          /\ settings.steps_speed = 0 => steps_trigger._level = 257
          /\ settings.steps_speed = HALF_RANGE => steps_trigger._level = 2)
  /\ [][(steps_trigger._level # 0 /\ steps_trigger'._level # 0) =>
         /\ settings'.steps_speed >= settings.steps_speed =>
              steps_trigger'._level <= steps_trigger._level
         /\ (settings.steps_speed = 0 /\ settings'.steps_speed = HALF_RANGE)
              => steps_trigger'._level < steps_trigger._level]_vars

\* The level 2 set from the maximum speed.
C9_Witness ==
  /\ settings.steps_speed = HALF_RANGE
  /\ steps_trigger._level = 2

\* ------------------------------------------------------------------------
\* The two clocks on their own: the triggers and the indices of loop(), the
\* decoded directions and the levels held
\* ------------------------------------------------------------------------
\* Both levels are L, the counters start at c, the directions are ds and dc.
HeldClocks(L, c, ds, dc) ==
  /\ steps_trigger = set_trigger_level([CountTrigger EXCEPT !._counter = c], L)
  /\ color_trigger = set_trigger_level([CountTrigger EXCEPT !._counter = c], L)
  /\ settings = [NoSettings EXCEPT !.steps_direction = ds,
                                   !.color_direction = dc]
  /\ steps_fired = FALSE /\ color_fired = FALSE

\* The ticks and steps of one run of loop().
Clock ==
  LET st == tick(steps_trigger)
      ct == tick(color_trigger)
      s1 == IF st.fired THEN step_leds(state, settings) ELSE state
      s2 == IF ct.fired THEN step_color(s1, settings) ELSE s1
      steps_moved == s2.start_led # state.start_led
      color_moved == s2.color_index # state.color_index
  IN /\ steps_trigger' = st.trigger /\ color_trigger' = ct.trigger
     /\ steps_fired' = st.fired /\ color_fired' = ct.fired
     /\ state' = s2
     /\ prev' = [prev EXCEPT !.start_led = state.start_led,
                             !.color_index = state.color_index,
                             !.steps_counter = steps_trigger._counter,
                             !.color_counter = color_trigger._counter,
                             !.steps_fired = steps_fired,
                             !.color_fired = color_fired,
                             !.before_start_led = prev.start_led,
                             !.before_color_index = prev.color_index]
     /\ since' = [steps |-> IF steps_moved THEN 0 ELSE since.steps + 1,
                  color |-> IF color_moved THEN 0 ELSE since.color + 1,
                  steps_stepped |-> since.steps_stepped \/ steps_moved,
                  color_stepped |-> since.color_stepped \/ color_moved]
     /\ UNCHANGED <<pc, green, red, blue, leds, steps_reader, color_reader,
                    raw_steps, raw_color, steps_seen, color_seen, movement,
                    color, settings, calls, twin>>

\* The clocks start as loop()'s statics do, with any level and directions.
InitLap ==
  /\ InitStrip
  /\ InitPots
  /\ InitAnim
  /\ \E L \in 1..MaxLevel, ds \in {-1, 0, 1}, dc \in {-1, 0, 1} :
        HeldClocks(L, 0, ds, dc)

\* One run, counted.
LapRun ==
  /\ iter < MaxLapRuns
  /\ Clock
  /\ iter' = iter + 1

NextLap == LapRun

SpecLap == InitLap /\ [][NextLap]_vars

\* C12: from start_led 0, with the worm direction +1 and a worm trigger of
\* level 1, which fires at every tick, start_led is the number of runs of
\* loop() modulo 144: 143 after 143 runs and 0 after 144.
C12_FullLap ==
  (steps_trigger._level = 1 /\ settings.steps_direction = 1) =>
    /\ state.start_led = iter % NUM_LEDS
    /\ iter = NUM_LEDS - 1 => state.start_led = NUM_LEDS - 1
    /\ iter = NUM_LEDS => state.start_led = 0

\* The 144th run takes the worm from LED 143 back to LED 0.
C12_Witness ==
  /\ steps_trigger._level = 1 /\ settings.steps_direction = 1
  /\ iter = NUM_LEDS
  /\ steps_fired /\ prev.start_led = NUM_LEDS - 1 /\ state.start_led = 0

\* The settings have come to rest at nonzero directions and a level; the
\* counters hold what the runs before have left in them.
InitProgress ==
  /\ InitStrip
  /\ InitPots
  /\ InitAnim
  /\ \E L \in 1..MaxLevel, c \in 0..MaxLevel, ds \in {-1, 1}, dc \in {-1, 1} :
        HeldClocks(L, c, ds, dc)

\* One run; loop() is run over and over.
FreeRun ==
  /\ Clock
  /\ UNCHANGED iter

NextProgress == FreeRun

\* The Arduino core calls loop() again whenever it returns.
SpecProgress ==
  InitProgress /\ [][NextProgress]_vars /\ WF_vars(NextProgress)

\* C20: with the worm direction held at -1 or +1 and the level held at L,
\* start_led steps for the first time within L runs of loop() and from then
\* on once in every L runs, and it is at every LED 0..143 again and again;
\* the same for color_index and the slots 0..11.
C20_Progress ==
  /\ [](since.steps < steps_trigger._level)
  /\ [](since.color < color_trigger._level)
  /\ [][(state'.start_led # state.start_led /\ since.steps_stepped)
          => since.steps = steps_trigger._level - 1]_vars
  /\ [][(state'.color_index # state.color_index /\ since.color_stepped)
          => since.color = color_trigger._level - 1]_vars
  /\ \A p \in 0..(NUM_LEDS - 1) : []<>(state.start_led = p)
  /\ \A q \in 0..(NUM_RAINBOW_LEDS - 1) : []<>(state.color_index = q)

\* At the largest level the worm has stepped forward all the way to LED 143
\* and the colors have gone round to slot 11.
C20_Witness ==
  /\ steps_trigger._level = MaxLevel
  /\ settings.steps_direction = 1 /\ settings.color_direction = 1
  /\ since.steps_stepped /\ since.steps = MaxLevel - 1
  /\ state.start_led = NUM_LEDS - 1
  /\ state.color_index = NUM_RAINBOW_LEDS - 1

====
